---- MODULE Spec2Model ----
(***************************************************************************)
(* Model of moler's asyncio observation runtime (moler/asyncio_runner.py): *)
(* AsyncioRunner and AsyncioInThreadRunner driving connection observers    *)
(* that are fed from a publish/subscribe connection.                       *)
(*                                                                         *)
(* Threads of the model:                                                   *)
(*   - the caller thread, which calls start()/submit(), wait_for(),        *)
(*     shutdown() and Future.cancel(), and in which the event loop of      *)
(*     AsyncioRunner runs (inside wait_for, or because the caller's own    *)
(*     code runs the loop);                                                *)
(*   - the transport reader threads (Threads), which deliver inbound       *)
(*     chunks to the sinks subscribed on the connection.                   *)
(* The feed() coroutine of an observer is a task of the event loop: it     *)
(* advances only while the loop is running.                                *)
(***************************************************************************)
EXTENDS Integers, Sequences, FiniteSets, TLC

\* ------------------------------------------------------------- bounds
MaxTime == 2
MaxDeadline == 1
MaxWait == 1
MaxDeliveries == 2
MaxLoads == 2
MaxLoopThreads == 2

\* ---------------------------------------------------------- constants
\* check_system_resources_limit refuses when fds > soft limit - FdMargin
FdMargin == 10
\* soft limit of open files of the process (read from the OS at import)
max_open_files_limit_soft == 12

Observers == {"cmd", "obs"}
Threads == {"t1", "t2"}
NoTimeout == -1
Deadlines == 0..MaxDeadline
WaitTimeouts == {NoTimeout} \cup (0..MaxWait)
\* open descriptors of the process: the last count that is admitted, the first refused
FdCounts == (max_open_files_limit_soft - FdMargin)..(max_open_files_limit_soft - FdMargin + 1)
Terminal == {"succeeded", "failed", "cancelled"}
Pending == {"scheduled", "sleep_first", "sleep_loop"}
Outcomes == {"nothing", "result", "exception", "raise"}

VARIABLES
    backend,            \* "asyncio" (AsyncioRunner) or "inthread" (AsyncioInThreadRunner)
    pool,               \* the observers the caller has created
    callerIsMain,       \* the caller thread is MainThread (it has a preinstalled loop)
    curr_fds_open,      \* current_process.num_fds(): descriptors the process has open
    now,                \* time.time()
    in_shutdown,        \* runner._in_shutdown
    started_ev_loops,   \* runner._started_ev_loops (loops this runner created)
    loop,               \* event loop of the caller thread: "absent", "open", "closed"
    shutdown_raised,    \* shutdown() was left by an exception
    userLoop,           \* the caller's own code is running the loop ('async def' context)
    subscribers,        \* sinks subscribed on the connection (one sink per observer)
    outbound,           \* what was written to the connection by sendline
    submitted_futures,  \* runner._submitted_futures
    observer,           \* the connection observers
    future,             \* what submit() returned and, for a task, where feed() stands
    cancel_requested,   \* Future.cancel() was called and not yet delivered to feed()
    submit_raised,      \* exception thrown out of submit(), "none" if it returned
    observer_lock,      \* the lock made by submit(): "free" or the thread holding it
    dpc, dcur, dtodo,   \* reader threads: position, sink being called, sinks still to call
    deliveries,         \* number of chunks delivered so far
    callerpc,           \* caller thread: "free", "inwait" (loop runs inside wait_for), "timedout"
    waited,             \* observer the blocked wait_for is about
    wait_until,         \* moment the timer of asyncio.wait_for fires, NoTimeout if none
    wait_timeout,       \* the timeout argument of the blocked wait_for
    wait_called,        \* moment the blocked wait_for was entered
    wait_result,        \* how the last wait_for (on observer 'waited') ended
    wait_in_loop,       \* the last wait_for was called with the thread's loop running
    bound_hit,          \* the caller's bound elapsed while the waited observer was running
    loaded_config,      \* moler.config.loaded_config: what load_config was given so far
    logger,             \* log_cfg: the logger settings in force
    named_connections,  \* conn_cfg: io_type of each named connection defined
    default_variant,    \* conn_cfg: the default variant of the io_type
    default_connection, \* dev_cfg.default_connection
    named_devices,      \* dev_cfg / DeviceFactory: names of the devices defined
    load_raised,        \* exception thrown out of the last load_config(), "none" if it returned
    passed_configs,     \* the configs load_config was called with since the last clear(), as passed
    asyncio_loop_thread,      \* the module's _asyncio_loop_thread: 0 for None, else the instance
    asyncio_loop_thread_lock, \* _asyncio_loop_thread_lock: "free" or the thread holding it
    loop_threads_created,     \* how many AsyncioLoopThread objects were constructed
    loop_threads_started,     \* the instances whose start() returned
    new_loop_thread,          \* local variable of get_asyncio_loop_thread, per calling thread
    gpc,                      \* where each calling thread is in get_asyncio_loop_thread
    got,                      \* what the last get_asyncio_loop_thread of each thread returned or raised
    device_states,      \* device.states: the list of the device's state names
    device_state,       \* the state the device is in
    sm_pc,              \* iterate_over_device_states: "idle", "source", "target", "done", "raised"
    sm_source, sm_target, \* positions of source_state and target_state in the list
    sm_requested,       \* changes requested in the inner loop: <<state the device was in, target>>
    sm_raised,          \* what iterate_over_device_states raised, and the change that failed
    was_error,          \* MolerTest._was_error
    was_steps_end,      \* MolerTest._was_steps_end
    active_exceptions,  \* an unhandled observer exception was recorded since the last check
    test_pc,            \* the wrapped test: "outside", "body", "check"
    check_steps_end,    \* the wrapper of the running test checks steps_end()
    caught_exception,   \* the body of the running test raised
    logged_in_body,     \* log_error was called during the body of the test
    logged_before,      \* log_error was called between the last check and the body
    verdict,            \* how the last wrapped test ended: "none", "returned", "MolerStatusException"
    iperf2              \* the Iperf2 command: its options, current_ret, _connection_dict

vars == <<backend, pool, callerIsMain, curr_fds_open, now, in_shutdown, started_ev_loops, loop, shutdown_raised,
          userLoop, subscribers, outbound, submitted_futures, observer, future,
          cancel_requested, submit_raised, observer_lock, dpc, dcur, dtodo, deliveries,
          callerpc, waited, wait_until, wait_timeout, wait_called, wait_result, wait_in_loop, bound_hit,
          loaded_config, logger, named_connections, default_variant, default_connection,
          named_devices, load_raised, passed_configs,
          asyncio_loop_thread, asyncio_loop_thread_lock, loop_threads_created,
          loop_threads_started, new_loop_thread, gpc, got,
          device_states, device_state, sm_pc, sm_source, sm_target, sm_requested, sm_raised,
          was_error, was_steps_end, active_exceptions, test_pc, check_steps_end,
          caught_exception, logged_in_body, logged_before, verdict, iperf2>>

runnerVars == <<in_shutdown, started_ev_loops, loop, shutdown_raised, submitted_futures>>
readerVars == <<dpc, dcur, dtodo, deliveries>>
waitVars == <<callerpc, waited, wait_until, wait_timeout, wait_called, bound_hit>>
definitionVars == <<logger, named_connections, default_variant, default_connection, named_devices>>
configVars == <<loaded_config, definitionVars, load_raised, passed_configs>>
loopThreadVars == <<asyncio_loop_thread, asyncio_loop_thread_lock, loop_threads_created,
                    loop_threads_started, new_loop_thread, gpc, got>>
smVars == <<device_states, device_state, sm_pc, sm_source, sm_target, sm_requested, sm_raised>>
testVars == <<was_error, was_steps_end, active_exceptions, test_pc, check_steps_end,
              caught_exception, logged_in_body, logged_before, verdict>>
\* what no step of the runners changes
fixedVars == <<backend, pool, callerIsMain, curr_fds_open, configVars, loopThreadVars, smVars,
               testVars, iperf2>>
resultVars == <<wait_result, wait_in_loop>>

\* ------------------------------------------------------------ observer
is_command(o) == o = "cmd"

NewObserver == [state |-> "unstarted", result |-> "none", exception |-> "none",
                start_time |-> 0, timeout |-> 0]

done(ob) == ob.state \in Terminal

set_result(ob, x) ==
    IF done(ob) THEN ob ELSE [ob EXCEPT !.state = "succeeded", !.result = x]

set_exception(ob, e) ==
    IF done(ob) THEN ob ELSE [ob EXCEPT !.state = "failed", !.exception = e]

cancel(ob) ==
    IF done(ob) THEN ob ELSE [ob EXCEPT !.state = "cancelled"]

\* (mutant) the deadline is noticed but the observer is left as it is
time_out_ignored(ob) == ob

time_out_observer(ob) == set_exception(ob, "MolerTimeout")

his_remaining_time(ob, timeout) == timeout - (now - ob.start_time)

\* what data_received does to the observer for one chunk
data_received(ob, outcome) ==
    CASE outcome = "result" -> set_result(ob, "value")
      [] outcome = "exception" -> set_exception(ob, "CommandFailure")
      [] OTHER -> ob

\* -------------------------------------------------------------- loop
loop_is_running == loop = "open" /\ (userLoop \/ callerpc = "inwait")

\* Future.cancel(): a request on a task that is not done, nothing otherwise
future_cancel(o) == IF future[o] \in Pending THEN TRUE ELSE cancel_requested[o]


\* -------------------------------------------------------------- init
\* ------------------------------------------------------ configuration
\* A configuration document.  LOGGER: the logger settings; io_type: the 'io_type' key
\* of the one named connection ("absent": no NAMED_CONNECTIONS, "missing": the
\* connection has no 'io_type' key); variant: IO_TYPES.default_variant;
\* DEFAULT_CONNECTION and the device names: the DEVICES section.
ConnectionNames == {"C1"}
DeviceNames == {"X", "Y"}
Documents ==
    [LOGGER : {"L1", "L2"},
     io_type : {"absent", "tcp", "missing"},
     default_variant : {"V1", "V2"},
     DEFAULT_CONNECTION : {"absent", "D1", "D2"},
     DEVICES : {{d} : d \in DeviceNames}]

NoDocument == [LOGGER |-> "L1", io_type |-> "absent", default_variant |-> "V1",
               DEFAULT_CONNECTION |-> "absent", DEVICES |-> {}]

\* the content of the YAML files: a file at an absolute path and a relative path
Paths == {"/abs.yml", "rel.yml"}
isabs(path) == path = "/abs.yml"
yaml_load(path) == [LOGGER |-> "L1", io_type |-> "tcp", default_variant |-> "V1",
                    DEFAULT_CONNECTION |-> "D1", DEVICES |-> {"X"}]

\* what load_config can be given as 'config' and 'config_type': a file name with
\* 'yaml', a dict with 'dict', a file name with a type that is not supported, and
\* no config at all (path "none"; from_env_var is never given)
Configs ==
    [config_type : {"yaml"}, path : Paths \cup {"none"}, dict : {NoDocument}]
        \cup [config_type : {"dict"}, path : {"none"}, dict : Documents]
        \cup [config_type : {"xml"}, path : {"/abs.yml"}, dict : {NoDocument}]

NOT_LOADED_YET == [config_type |-> "NOT_LOADED_YET", path |-> "none", dict |-> NoDocument]

\* compare_objects: deep comparison, empty diff when the two are equal
compare_objects(a, b) == a # b

configs_are_same(config_list, config_to_find) ==
    \E i \in 1..Len(config_list) : ~compare_objects(config_list[i], config_to_find)

\* (mutant) every load re-initializes logging and connections
add_devices_never(config) == FALSE

\* 'add_devices_only' of load_config: some config was loaded before and this one
\* differs from all of them
add_devices_only(config) ==
    /\ NOT_LOADED_YET \notin {loaded_config[i] : i \in 1..Len(loaded_config)}
    /\ ~configs_are_same(loaded_config, config)

\* the checks of the arguments: WrongUsage for a config_type other than 'dict' and
\* 'yaml', and for no config without from_env_var
usage_raises(config) ==
    \/ config.config_type \notin {"dict", "yaml"}
    \/ config.config_type = "yaml" /\ config.path = "none"

\* read_yaml_configfile raises MolerException for a path that is not absolute
read_raises(config) ==
    ~usage_raises(config) /\ config.config_type = "yaml" /\ ~isabs(config.path)

\* the dict load_config works on: the one passed, or the one parsed from the file
config_dict(config) ==
    IF config.config_type = "yaml" THEN yaml_load(config.path) ELSE config.dict

\* load_connection_from_config: 'connection_specification.pop("io_type")' raises
\* KeyError when the key is missing
connection_raises(d) == d.io_type = "missing"

\* the dict after load_connection_from_config: 'io_type' is popped out of it
connection_popped(d) ==
    IF d.io_type = "tcp" THEN [d EXCEPT !.io_type = "missing"] ELSE d

\* the dict after load_device_from_config: 'DEFAULT_CONNECTION' is popped out of it
device_popped(d) == [d EXCEPT !.DEFAULT_CONNECTION = "absent"]

\* _is_device_already_created for some device of the dict
device_raises(d) == d.DEVICES \cap named_devices # {}

\* exception load_config ends with, "none" if it returns
load_outcome(config) ==
    IF usage_raises(config) THEN "WrongUsage"
    ELSE IF read_raises(config) THEN "MolerException"
    ELSE IF ~add_devices_only(config) /\ connection_raises(config_dict(config)) THEN "KeyError"
    ELSE IF device_raises(config_dict(config)) THEN "WrongUsage"
    ELSE "none"

\* load_config was left by an exception before it looked into the dict
load_stopped_early(config) == usage_raises(config) \/ read_raises(config)

\* the dict passed to load_config as load_config leaves it
dict_after_load(config) ==
    IF load_stopped_early(config) \/ load_outcome(config) = "KeyError" THEN config.dict
    ELSE IF add_devices_only(config) THEN device_popped(config.dict)
    ELSE device_popped(connection_popped(config.dict))

\* what is in loaded_config for this call once load_config is over: the file name,
\* or the dict object passed, which load_config has changed in place
loaded_item(config) ==
    IF config.config_type = "dict" THEN [config EXCEPT !.dict = dict_after_load(config)]
    ELSE config

load_logger_from_config(d) == d.LOGGER

load_connection_from_config(d) ==
    [c \in ConnectionNames |-> IF d.io_type = "tcp" THEN "tcp" ELSE named_connections[c]]

load_device_from_config(d, add_only) ==
    /\ default_connection' =
          IF d.DEFAULT_CONNECTION # "absent" /\ ~add_only
          THEN d.DEFAULT_CONNECTION ELSE default_connection
    /\ named_devices' = IF device_raises(d) THEN named_devices
                                            ELSE named_devices \cup d.DEVICES

load_config(config) ==
    /\ Len(loaded_config) < MaxLoads \/ configs_are_same(loaded_config, config)
    /\ passed_configs' = passed_configs \cup {config}
    /\ IF loaded_config # <<NOT_LOADED_YET>> /\ configs_are_same(loaded_config, config)
       THEN /\ load_raised' = "none"
            /\ UNCHANGED <<loaded_config, definitionVars>>
       ELSE /\ loaded_config' =
                  IF loaded_config = <<NOT_LOADED_YET>> THEN <<loaded_item(config)>>
                  ELSE Append(loaded_config, loaded_item(config))
            /\ load_raised' = load_outcome(config)
            /\ CASE load_stopped_early(config) -> UNCHANGED definitionVars
                 [] load_outcome(config) = "KeyError" ->
                    \* load_logger_from_config is over when the pop raises
                    /\ logger' = load_logger_from_config(config_dict(config))
                    /\ UNCHANGED <<named_connections, default_variant, default_connection,
                                   named_devices>>
                 [] OTHER ->
                    /\ IF add_devices_only(config)
                       THEN UNCHANGED <<logger, named_connections, default_variant>>
                       ELSE /\ logger' = load_logger_from_config(config_dict(config))
                            /\ named_connections' =
                                  load_connection_from_config(config_dict(config))
                            /\ default_variant' = config_dict(config).default_variant
                    /\ load_device_from_config(config_dict(config), add_devices_only(config))
    /\ UNCHANGED <<backend, pool, callerIsMain, curr_fds_open, now, runnerVars, userLoop,
                   subscribers, outbound, observer, future, cancel_requested, submit_raised,
                   observer_lock, readerVars, waitVars, resultVars, loopThreadVars, smVars,
                   testVars, iperf2>>

\* moler.config.clear(): the loaded configs, the connection and the device
\* definitions are forgotten; the logger settings are kept
clear ==
    /\ loaded_config' = <<NOT_LOADED_YET>>
    /\ named_connections' = [c \in ConnectionNames |-> "undefined"]
    /\ default_variant' = "unset"
    /\ default_connection' = "unset"
    /\ named_devices' = {}
    /\ passed_configs' = {}
    /\ UNCHANGED <<logger, load_raised>>
    /\ UNCHANGED <<backend, pool, callerIsMain, curr_fds_open, now, runnerVars, userLoop,
                   subscribers, outbound, observer, future, cancel_requested, submit_raised,
                   observer_lock, readerVars, waitVars, resultVars, loopThreadVars, smVars,
                   testVars, iperf2>>

\* ------------------------------------------- get_asyncio_loop_thread
\* threads that call get_asyncio_loop_thread()
Callers == {"c1", "c2", "c3"}

\* everything of the process but the loop-thread singleton
allButLoopThread == <<backend, pool, callerIsMain, curr_fds_open, configVars, now, runnerVars,
                      userLoop, subscribers, outbound, observer, future, cancel_requested,
                      submit_raised, observer_lock, readerVars, waitVars, resultVars, smVars,
                      testVars, iperf2>>

\* a call that has not ended: nothing returned, nothing raised
NothingGot == [returned |-> 0, raised |-> "none"]

\* (mutant) the lock is not waited for
loop_thread_lock_ignored == TRUE

\* 'with _asyncio_loop_thread_lock:' can be entered
loop_thread_lock_free == asyncio_loop_thread_lock = "free"

\* 'with _asyncio_loop_thread_lock:' entered
get_asyncio_loop_thread_lock(t) ==
    /\ gpc[t] = "idle"
    /\ loop_thread_lock_free
    /\ asyncio_loop_thread # 0 \/ loop_threads_created < MaxLoopThreads
    /\ asyncio_loop_thread_lock' = t
    /\ gpc' = [gpc EXCEPT ![t] = "locked"]
    /\ got' = [got EXCEPT ![t] = NothingGot]
    /\ UNCHANGED <<asyncio_loop_thread, loop_threads_created, loop_threads_started,
                   new_loop_thread, allButLoopThread>>

\* 'if _asyncio_loop_thread is None: new_loop_thread = AsyncioLoopThread()'
get_asyncio_loop_thread_create(t) ==
    /\ gpc[t] = "locked"
    /\ IF asyncio_loop_thread = 0
       THEN /\ loop_threads_created' = loop_threads_created + 1
            /\ new_loop_thread' = [new_loop_thread EXCEPT ![t] = loop_threads_created + 1]
            /\ gpc' = [gpc EXCEPT ![t] = "created"]
       ELSE /\ gpc' = [gpc EXCEPT ![t] = "unlock"]
            /\ UNCHANGED <<loop_threads_created, new_loop_thread>>
    /\ UNCHANGED <<asyncio_loop_thread, asyncio_loop_thread_lock, loop_threads_started, got,
                   allButLoopThread>>

\* 'new_loop_thread.start(); _asyncio_loop_thread = new_loop_thread': start() returns
\* when the loop reported itself started within start_timeout, and raises
\* MolerException otherwise, which leaves the 'with' block and the function
get_asyncio_loop_thread_start(t) ==
    /\ gpc[t] = "created"
    /\ \E ev_loop_started \in BOOLEAN :
          IF ev_loop_started
          THEN /\ loop_threads_started' = loop_threads_started \cup {new_loop_thread[t]}
               /\ asyncio_loop_thread' = new_loop_thread[t]
               /\ gpc' = [gpc EXCEPT ![t] = "unlock"]
               /\ UNCHANGED <<asyncio_loop_thread_lock, got>>
          ELSE /\ asyncio_loop_thread_lock' =
                     IF asyncio_loop_thread_lock = t THEN "free" ELSE asyncio_loop_thread_lock
               /\ got' = [got EXCEPT ![t] = [returned |-> 0, raised |-> "MolerException"]]
               /\ gpc' = [gpc EXCEPT ![t] = "idle"]
               /\ UNCHANGED <<asyncio_loop_thread, loop_threads_started>>
    /\ UNCHANGED <<loop_threads_created, new_loop_thread, allButLoopThread>>

\* end of the 'with' block
get_asyncio_loop_thread_unlock(t) ==
    /\ gpc[t] = "unlock"
    /\ asyncio_loop_thread_lock' =
          IF asyncio_loop_thread_lock = t THEN "free" ELSE asyncio_loop_thread_lock
    /\ gpc' = [gpc EXCEPT ![t] = "return"]
    /\ UNCHANGED <<asyncio_loop_thread, loop_threads_created, loop_threads_started,
                   new_loop_thread, got, allButLoopThread>>

\* 'return _asyncio_loop_thread', read after the lock was released
get_asyncio_loop_thread_return(t) ==
    /\ gpc[t] = "return"
    /\ got' = [got EXCEPT ![t] = [returned |-> asyncio_loop_thread, raised |-> "none"]]
    /\ gpc' = [gpc EXCEPT ![t] = "idle"]
    /\ UNCHANGED <<asyncio_loop_thread, asyncio_loop_thread_lock, loop_threads_created,
                   loop_threads_started, new_loop_thread, allButLoopThread>>

\* ------------------------------------------ iterate_over_device_states
\* states a device can have besides NOT_CONNECTED
StateNames == {"UNIX_LOCAL", "UNIX_REMOTE", "PROXY_PC"}

\* lists without repetition of the members of a set
RECURSIVE ListsOf(_)
ListsOf(S) ==
    IF S = {} THEN {<<>>}
    ELSE UNION {{<<x>> \o l : l \in ListsOf(S \ {x})} : x \in S}

\* device.states of the devices looked at: NOT_CONNECTED first, then two or three states
DeviceStateLists ==
    UNION {{<<"NOT_CONNECTED">> \o l : l \in ListsOf(S)} :
              S \in {T \in SUBSET StateNames : Cardinality(T) >= 2}}

\* list.remove(x): the list without the first x
RECURSIVE remove(_, _)
remove(l, x) ==
    IF l = <<>> THEN <<>>
    ELSE IF Head(l) = x THEN Tail(l) ELSE <<Head(l)>> \o remove(Tail(l), x)

NothingRaised == [exception |-> "none", source |-> "none", target |-> "none",
                  was_in |-> "none"]

allButSM == <<backend, pool, callerIsMain, curr_fds_open, configVars, loopThreadVars, now,
              runnerVars, userLoop, subscribers, outbound, observer, future, cancel_requested,
              submit_raised, observer_lock, readerVars, waitVars, resultVars, testVars, iperf2>>

\* 'states = device.states; states.remove("NOT_CONNECTED")': the device's own list
iterate_over_device_states ==
    /\ sm_pc = "idle"
    /\ device_states' = remove(device_states, "NOT_CONNECTED")
    /\ sm_source' = 1
    /\ sm_pc' = "source"
    /\ UNCHANGED <<device_state, sm_target, sm_requested, sm_raised, allButSM>>

\* 'for source_state in states: device.goto_state(source_state)', outside any try;
\* goto_state brings the device to the state or raises
iterate_goto_source ==
    /\ sm_pc = "source"
    /\ IF sm_source > Len(device_states)
       THEN /\ sm_pc' = "done"
            /\ UNCHANGED <<device_state, sm_target, sm_raised>>
       ELSE \E reached \in BOOLEAN :
              IF reached
              THEN /\ device_state' = device_states[sm_source]
                   /\ sm_target' = 1
                   /\ sm_pc' = "target"
                   /\ UNCHANGED sm_raised
              ELSE /\ sm_raised' = [exception |-> "Exception", source |-> "none",
                                    target |-> device_states[sm_source],
                                    was_in |-> device_state]
                   /\ sm_pc' = "raised"
                   /\ UNCHANGED <<device_state, sm_target>>
    /\ UNCHANGED <<device_states, sm_source, sm_requested, allButSM>>

\* 'for target_state in states: try: device.goto_state(target_state)
\*  except Exception: raise MolerException("... source_state -> target_state")'
iterate_goto_target ==
    /\ sm_pc = "target"
    /\ IF sm_target > Len(device_states)
       THEN /\ sm_source' = sm_source + 1
            /\ sm_pc' = "source"
            /\ UNCHANGED <<device_state, sm_target, sm_requested, sm_raised>>
       ELSE /\ sm_requested' = sm_requested \cup {<<device_state, device_states[sm_target]>>}
            /\ \E reached \in BOOLEAN :
                 IF reached
                 THEN /\ device_state' = device_states[sm_target]
                      /\ sm_target' = sm_target + 1
                      /\ UNCHANGED <<sm_source, sm_pc, sm_raised>>
                 ELSE /\ sm_raised' = [exception |-> "MolerException",
                                       source |-> device_states[sm_source],
                                       target |-> device_states[sm_target],
                                       was_in |-> device_state]
                      /\ sm_pc' = "raised"
                      /\ UNCHANGED <<device_state, sm_source, sm_target>>
    /\ UNCHANGED <<device_states, allButSM>>

\* ------------------------------------------------------------ MolerTest
allButTest == <<backend, pool, callerIsMain, curr_fds_open, configVars, loopThreadVars, smVars,
                iperf2,
                now, runnerVars, userLoop, subscribers, outbound, observer, future,
                cancel_requested, submit_raised, observer_lock, readerVars, waitVars,
                resultVars>>

\* wrapped(): 'MolerTest._steps_start(); caught_exception = None', the body begins
MolerTest_wrapped(steps_end_checked) ==
    /\ test_pc = "outside"
    /\ was_steps_end' = FALSE
    /\ caught_exception' = FALSE
    /\ check_steps_end' = steps_end_checked
    /\ test_pc' = "body"
    /\ logged_in_body' = FALSE
    /\ UNCHANGED <<was_error, active_exceptions, logged_before, verdict, allButTest>>

\* MolerTest.steps_end(), called by a test body or by any other code
MolerTest_steps_end ==
    /\ test_pc # "check"
    /\ was_steps_end' = TRUE
    /\ UNCHANGED <<was_error, active_exceptions, test_pc, check_steps_end, caught_exception,
                   logged_in_body, logged_before, verdict, allButTest>>

\* MolerTest.log_error(msg, raise_exception), called by a test body or, between two
\* tests, by any other code; with raise_exception the MolerException ends the body
MolerTest_log_error(raise_exception) ==
    /\ test_pc # "check"
    /\ raise_exception => test_pc = "body"
    /\ was_error' = TRUE
    /\ logged_in_body' = (logged_in_body \/ test_pc = "body")
    /\ logged_before' = (logged_before \/ test_pc = "outside")
    /\ caught_exception' = (caught_exception \/ raise_exception)
    /\ test_pc' = IF raise_exception THEN "check" ELSE test_pc
    /\ UNCHANGED <<was_steps_end, active_exceptions, check_steps_end, verdict, allButTest>>

\* an observer's exception that nobody takes is recorded by ConnectionObserver
observer_exception_recorded ==
    /\ test_pc # "check"
    /\ active_exceptions' = TRUE
    /\ UNCHANGED <<was_error, was_steps_end, test_pc, check_steps_end, caught_exception,
                   logged_in_body, logged_before, verdict, allButTest>>

\* 'result = method(*args, **kwargs)' returns, or raises and 'except Exception' takes it
MolerTest_body_ends(raised) ==
    /\ test_pc = "body"
    /\ caught_exception' = raised
    /\ test_pc' = "check"
    /\ UNCHANGED <<was_error, was_steps_end, active_exceptions, check_steps_end,
                   logged_in_body, logged_before, verdict, allButTest>>

\* (mutant) _final_check leaves MolerTest._was_error as it is
was_error_kept == was_error \/ active_exceptions

\* 'MolerTest._was_error = False' of _final_check
was_error_reset == FALSE

\* _final_check(caught_exception, check_steps_end) in the finally clause of wrapped(),
\* then 'return result': every exception got from ConnectionObserver is logged with
\* log_error, which sets _was_error before it is read
MolerTest_final_check ==
    /\ test_pc = "check"
    /\ LET unhandled_exceptions == active_exceptions \/ caught_exception
           was_error_in_last_execution == was_error \/ active_exceptions
           err_msg == \/ check_steps_end /\ ~was_steps_end
                      \/ was_error_in_last_execution
                      \/ unhandled_exceptions
       IN verdict' = IF err_msg \/ unhandled_exceptions THEN "MolerStatusException"
                                                         ELSE "returned"
    /\ was_error' = was_error_reset
    /\ active_exceptions' = FALSE
    /\ test_pc' = "outside"
    /\ logged_before' = FALSE
    /\ UNCHANGED <<was_steps_end, check_steps_end, caught_exception, logged_in_body,
                   allButTest>>

\* ------------------------------------------------------------ Iperf2
MaxLines == 3

allButIperf == <<backend, pool, callerIsMain, curr_fds_open, configVars, loopThreadVars, smVars,
                 testVars, now, runnerVars, userLoop, subscribers, outbound, observer, future,
                 cancel_requested, submit_raised, observer_lock, readerVars, waitVars,
                 resultVars>>

\* the connection ids iperf prints, '[  3]', and the id of the summary connection
Ids == {"[  3]", "[  4]"}
SUM == "[SUM]"

\* the intervals of the records: (0.0, 1.0), (1.0, 2.0), (0.0, 2.0)
Intervals == {<<0, 1>>, <<1, 2>>, <<0, 2>>}

\* A line of output is described by the patterns of Iperf2 that find a match in
\* it and by the groups they capture: the id, whether the remote port is the
\* port of the command (the local side is then the client), the interval.
\* _re_headers '\[\s+ID\]...' finds nothing where _re_ornaments '\[\s*ID\].*'
\* finds nothing, and _r_conn_info '(\[\s*\d*\])' captures no '[SUM]'.
Lines ==
    {l \in [failure : BOOLEAN, connection : BOOLEAN, headers : BOOLEAN, record : BOOLEAN,
            ornaments : BOOLEAN, ID : Ids \cup {SUM}, remote_is_server : BOOLEAN,
            Interval : Intervals] :
        /\ l.headers => l.ornaments
        /\ l.connection => l.ID \in Ids
        /\ ~l.connection => l.remote_is_server
        /\ ~(l.connection \/ l.record) => l.ID = "[  3]"
        /\ ~l.record => l.Interval = <<0, 1>>}

\* the options the command is built with, and the interpreter that runs it
IperfOptions == [client : BOOLEAN, parallel : BOOLEAN, python3 : BOOLEAN]

\* the patterns of the parsers that find a match in the line, numbered in the
\* order on_new_line calls the parsers: 1 _command_failure, 2 _parse_connection_name_and_id,
\* 3 _parse_headers, 4 _parse_connection_info, 5 _parse_connection_headers, which
\* acts on the lines where _re_ornaments finds nothing
matching(l) ==
    {i \in 1..5 : \/ i = 1 /\ l.failure
                  \/ i = 2 /\ l.connection
                  \/ i = 3 /\ l.headers
                  \/ i = 4 /\ l.record
                  \/ i = 5 /\ ~l.ornaments}

NotConstructed ==
    [constructed |-> FALSE, options |-> [client |-> FALSE, parallel |-> FALSE, python3 |-> FALSE],
     exception |-> "none", connection_dict |-> << >>, CONNECTIONS |-> << >>, reports |-> << >>,
     INFO |-> 0, raised |-> "none", done |-> FALSE, applied |-> {}, matched |-> {},
     is_full_line |-> FALSE, parsed |-> << >>, lines |-> 0]

\* (mutant) a parser that matched lets the next parsers see the line
ParsingDone_not_raised(c) == c

\* 'raise ParsingDone': on_new_line leaves its try block
ParsingDone(c) == [c EXCEPT !.done = TRUE]

\* an exception other than ParsingDone leaves on_new_line
raised_in_parser(c, exc) == [c EXCEPT !.done = TRUE, !.raised = exc]

\* "{}:{}".format(host, port) is kept as the pair <<host, port>>;
\* _split_connection_name, then '(client_host, "{}:{}".format(server_host, server_port))'
result_connection(connection_name) == <<connection_name[1][1], connection_name[2]>>

\* (mutant) every record is taken for the final one
is_final_record_always(last_record) == TRUE

is_final_record(last_record) == last_record.Interval[1] = 0

\* the parallel_client property; it raises "TypeError" on Python 3, where
\* dict.values() cannot be indexed; on Python 2 first_local is a tuple and every
\* 'local' a string, so the loop returns False at its first turn
parallel_client(c) ==
    IF c.options.client THEN IF c.options.parallel THEN "True" ELSE "False"
    ELSE IF Cardinality(DOMAIN c.connection_dict) > 1
         THEN IF c.options.python3 THEN "TypeError" ELSE "False"
         ELSE "False"

command_failure(c, l) ==
    IF l.failure
    THEN ParsingDone([c EXCEPT !.exception = "CommandFailure",
                               !.applied = @ \cup {1}])
    ELSE c

parse_connection_name_and_id(c, l) ==
    IF l.connection
    THEN LET local == <<"local", IF l.remote_is_server THEN l.ID ELSE "5001">>
             remote == <<"remote", IF l.remote_is_server THEN "5001" ELSE l.ID>>
             name == IF l.remote_is_server THEN <<local, remote>> ELSE <<remote, local>>
         IN ParsingDone([c EXCEPT
                !.connection_dict = [i \in DOMAIN @ \cup {l.ID} |->
                                        IF i = l.ID THEN name ELSE @[i]],
                !.applied = @ \cup {2}])
    ELSE c

\* 'first' is the id whose value dict.values()[0] gives on Python 2
parse_headers(c, l, first) ==
    IF l.headers
    THEN CASE parallel_client(c) = "TypeError" -> raised_in_parser(c, "TypeError")
           [] parallel_client(c) = "False" -> ParsingDone([c EXCEPT !.applied = @ \cup {3}])
           [] OTHER ->
                IF c.options.python3 THEN raised_in_parser(c, "TypeError")
                ELSE IF first \notin DOMAIN c.connection_dict
                     THEN raised_in_parser(c, "IndexError")
                     ELSE LET client == c.connection_dict[first][1]
                              server == c.connection_dict[first][2]
                          IN ParsingDone([c EXCEPT
                                 !.connection_dict =
                                     [i \in DOMAIN @ \cup {SUM} |->
                                         IF i = SUM THEN <<<<client[1], "multiport">>, server>>
                                                    ELSE @[i]],
                                 !.applied = @ \cup {3}])
    ELSE c

\* _parse_connection_info with _update_current_ret and _parse_final_record
parse_connection_info(c, l) ==
    IF l.record
    THEN IF l.ID \notin DOMAIN c.connection_dict
         THEN raised_in_parser(c, "KeyError")
         ELSE LET connection_name == c.connection_dict[l.ID]
                  info_dict == [Interval |-> l.Interval]
                  records == IF connection_name \in DOMAIN c.CONNECTIONS
                             THEN Append(c.CONNECTIONS[connection_name], info_dict)
                             ELSE <<info_dict>>
                  last_record == records[Len(records)]
              IN ParsingDone([c EXCEPT
                     !.CONNECTIONS = [n \in DOMAIN @ \cup {connection_name} |->
                                         IF n = connection_name THEN records ELSE @[n]],
                     !.reports = IF is_final_record(last_record)
                                 THEN [k \in DOMAIN @ \cup {result_connection(connection_name)} |->
                                          IF k = result_connection(connection_name)
                                          THEN last_record ELSE @[k]]
                                 ELSE @,
                     !.parsed = Append(@, <<connection_name, info_dict>>),
                     !.applied = @ \cup {4}])
    ELSE c

parse_connection_headers(c, l) ==
    IF ~l.ornaments
    THEN ParsingDone([c EXCEPT !.INFO = @ + 1, !.applied = @ \cup {5}])
    ELSE c

\* the try block of on_new_line: each parser is called unless one before it raised
on_new_line(c, l, is_full_line, first) ==
    LET c0 == [c EXCEPT !.done = FALSE, !.raised = "none", !.applied = {},
                        !.matched = matching(l), !.is_full_line = is_full_line,
                        !.lines = @ + 1]
        c1 == command_failure(c0, l)
        c2 == IF c1.done THEN c1 ELSE parse_connection_name_and_id(c1, l)
        c3 == IF c2.done THEN c2 ELSE parse_headers(c2, l, first)
        c4 == IF c3.done THEN c3 ELSE parse_connection_info(c3, l)
        c5 == IF c4.done THEN c4 ELSE parse_connection_headers(c4, l)
    IN IF is_full_line THEN c5 ELSE c0

\* Iperf2(connection, options)
Iperf2_init(options) ==
    /\ ~iperf2.constructed
    /\ iperf2' = [NotConstructed EXCEPT !.constructed = TRUE, !.options = options]
    /\ UNCHANGED allButIperf

\* the connection's data brought one more line to the command
Iperf2_on_new_line(l, is_full_line, first) ==
    /\ iperf2.constructed
    /\ iperf2.lines < MaxLines
    /\ first \in DOMAIN iperf2.connection_dict \/ (DOMAIN iperf2.connection_dict = {} /\ first = SUM)
    /\ iperf2' = on_new_line(iperf2, l, is_full_line, first)
    /\ UNCHANGED allButIperf

\* the process before anything was called, with a device whose states are 'states'
InitWithDevice(states) ==
    /\ backend \in {"asyncio", "inthread"}
    /\ pool \in {{o} : o \in Observers}
    /\ callerIsMain \in BOOLEAN
    /\ (backend = "inthread" => callerIsMain)
    /\ curr_fds_open \in FdCounts
    /\ now = 1
    /\ in_shutdown = FALSE
    /\ started_ev_loops = {}
    /\ loop = IF callerIsMain THEN "open" ELSE "absent"
    /\ shutdown_raised = FALSE
    /\ userLoop = FALSE
    /\ subscribers = {}
    /\ outbound = <<>>
    /\ submitted_futures = {}
    /\ observer = [o \in Observers |-> NewObserver]
    /\ future = [o \in Observers |-> "none"]
    /\ cancel_requested = [o \in Observers |-> FALSE]
    /\ submit_raised = [o \in Observers |-> "none"]
    /\ observer_lock = [o \in Observers |-> "free"]
    /\ dpc = [t \in Threads |-> "idle"]
    /\ dcur = [t \in Threads |-> "cmd"]
    /\ dtodo = [t \in Threads |-> {}]
    /\ deliveries = 0
    /\ callerpc = "free"
    /\ waited = "cmd"
    /\ wait_until = NoTimeout
    /\ wait_timeout = NoTimeout
    /\ wait_called = 0
    /\ wait_result = "none"
    /\ wait_in_loop = FALSE
    /\ bound_hit = FALSE
    /\ loaded_config = <<NOT_LOADED_YET>>
    /\ logger = "unset"
    /\ named_connections = [c \in ConnectionNames |-> "undefined"]
    /\ default_variant = "unset"
    /\ default_connection = "unset"
    /\ named_devices = {}
    /\ load_raised = "none"
    /\ passed_configs = {}
    /\ asyncio_loop_thread = 0
    /\ asyncio_loop_thread_lock = "free"
    /\ loop_threads_created = 0
    /\ loop_threads_started = {}
    /\ new_loop_thread = [t \in Callers |-> 0]
    /\ gpc = [t \in Callers |-> "idle"]
    /\ got = [t \in Callers |-> NothingGot]
    /\ device_states = states
    /\ device_state = "NOT_CONNECTED"
    /\ sm_pc = "idle"
    /\ sm_source = 1
    /\ sm_target = 1
    /\ sm_requested = {}
    /\ sm_raised = NothingRaised
    /\ was_error = FALSE
    /\ was_steps_end = FALSE
    /\ active_exceptions = FALSE
    /\ test_pc = "outside"
    /\ check_steps_end = FALSE
    /\ caught_exception = FALSE
    /\ logged_in_body = FALSE
    /\ logged_before = FALSE
    /\ verdict = "none"
    /\ iperf2 = NotConstructed

Init == InitWithDevice(<<"NOT_CONNECTED", "UNIX_LOCAL", "UNIX_REMOTE">>)

\* ------------------------------------------------------------- submit
\* ConnectionObserver.start(): the lifetime clock starts, then runner.submit()
start(ob, d) == [ob EXCEPT !.state = "running", !.start_time = now, !.timeout = d]

\* (mutant) the refusal is only logged, the observer is left running
limit_exception_dropped(ob) == ob

\* 'with observer_lock: connection_observer.set_exception(limit_exception)'
limit_exception_stored(ob) == set_exception(ob, "MolerException")

\* (mutant) the refusal hands out a future that is still pending
impossible_future_pending == "scheduled"

\* 'impossible_future = concurrent.futures.Future(); impossible_future.set_result(None)'
impossible_future == "impossible"

\* Future.done(), Future.exception() and Future.result() of what submit returned
Future_done(f) == f \in {"finished", "cancelled", "impossible"}
Future_exception(f) == IF f = "cancelled" THEN "CancelledError" ELSE "none"
Future_result(f) == IF f \in {"finished", "impossible"} THEN "None" ELSE "none"

check_system_resources_limit(fds_open) ==
    fds_open > max_open_files_limit_soft - FdMargin

\* (mutant) the sink is subscribed by the feed() task only, as with subscribed_data_receiver=None
start_feeding_subscribe_later(o) == subscribers

\* (mutant) the command string is sent before the sink is subscribed
start_feeding_sendline_first(o, subs) ==
    IF is_command(o)
    THEN Append(outbound, [cmd |-> o, subscribed |-> o \in subscribers, task |-> future[o]])
    ELSE outbound

\* _start_feeding: subscribe the sink, then send the command string of a command
start_feeding_subscribe(o) == subscribers \cup {o}

start_feeding_sendline(o, subs) ==
    IF is_command(o)
    THEN Append(outbound, [cmd |-> o, subscribed |-> o \in subs, task |-> future[o]])
    ELSE outbound

AsyncioRunner_submit(o) ==
    /\ backend = "asyncio"
    /\ callerpc = "free"
    /\ o \in pool
    /\ observer[o].state = "unstarted"
    /\ \E d \in Deadlines :
        LET started == start(observer[o], d) IN
        IF check_system_resources_limit(curr_fds_open)
        THEN /\ observer' = [observer EXCEPT ![o] = limit_exception_stored(started)]
             /\ future' = [future EXCEPT ![o] = impossible_future]
             /\ UNCHANGED <<loop, started_ev_loops, subscribers, outbound,
                            submitted_futures, submit_raised>>
        ELSE LET its_new == loop = "absent"
                 subs == start_feeding_subscribe(o)
             IN /\ observer' = [observer EXCEPT ![o] = started]
                /\ loop' = IF its_new THEN "open" ELSE loop
                /\ started_ev_loops' = IF its_new THEN started_ev_loops \cup {"loop"}
                                       ELSE started_ev_loops
                /\ subscribers' = subs
                /\ outbound' = start_feeding_sendline(o, subs)
                /\ IF loop = "closed"
                   THEN \* ensure_future on a closed loop raises RuntimeError
                        /\ submit_raised' = [submit_raised EXCEPT ![o] = "RuntimeError"]
                        /\ UNCHANGED <<future, submitted_futures>>
                   ELSE /\ future' = [future EXCEPT ![o] = "scheduled"]
                        /\ submitted_futures' = submitted_futures \cup {o}
                        /\ UNCHANGED submit_raised
    /\ UNCHANGED <<fixedVars, now, in_shutdown, shutdown_raised, userLoop, cancel_requested,
                   observer_lock, readerVars, waitVars, resultVars>>

\* start_feeder() calls self.feed(connection_observer, feed_started,
\* subscribed_data_receiver=None): two values for one parameter of feed(), so the
\* call raises TypeError inside the loop thread.  run_async_coroutine() hands that
\* exception to submit(), which catches MolerTimeout only; when the loop thread does
\* not get to start_feeder() within start_timeout, submit() takes the MolerTimeout branch.
AsyncioInThreadRunner_submit(o) ==
    /\ backend = "inthread"
    /\ callerpc = "free"
    /\ o \in pool
    /\ observer[o].state = "unstarted"
    /\ \E d \in Deadlines, in_time \in BOOLEAN :
        LET started == start(observer[o], d) IN
        IF in_time
        THEN /\ observer' = [observer EXCEPT ![o] = started]
             /\ submit_raised' = [submit_raised EXCEPT ![o] = "TypeError"]
             /\ UNCHANGED future
        ELSE /\ observer' = [observer EXCEPT ![o] = set_exception(started, "MolerException")]
             /\ future' = [future EXCEPT ![o] = "None"]
             /\ UNCHANGED submit_raised
    /\ UNCHANGED <<fixedVars, now, runnerVars, userLoop, subscribers, outbound,
                   cancel_requested, observer_lock, readerVars, waitVars, resultVars>>

\* ----------------------------------------------------------- shutdown
\* owned_loop.close() raises RuntimeError on a loop that is running
owned_loop_close_raises == started_ev_loops # {} /\ loop_is_running

\* what shutdown() leaves of the loop, the owned loops and the submitted futures
shutdown_loop ==
    IF ~owned_loop_close_raises /\ started_ev_loops # {} THEN "closed" ELSE loop

shutdown_started_ev_loops == IF owned_loop_close_raises THEN started_ev_loops ELSE {}

shutdown_submitted_futures == IF owned_loop_close_raises THEN submitted_futures ELSE {}

AsyncioRunner_shutdown ==
    /\ backend = "asyncio"
    /\ callerpc = "free"
    /\ in_shutdown' = TRUE
    /\ shutdown_raised' = (shutdown_raised \/ owned_loop_close_raises)
    /\ loop' = shutdown_loop
    /\ started_ev_loops' = shutdown_started_ev_loops
    /\ submitted_futures' = shutdown_submitted_futures
    /\ UNCHANGED <<fixedVars, now, userLoop, subscribers, outbound, observer, future,
                   cancel_requested, submit_raised, observer_lock, readerVars, waitVars,
                   resultVars>>

AsyncioInThreadRunner_shutdown ==
    /\ backend = "inthread"
    /\ callerpc = "free"
    /\ in_shutdown' = TRUE
    /\ UNCHANGED <<fixedVars, now, started_ev_loops, loop, shutdown_raised, submitted_futures,
                   userLoop, subscribers, outbound, observer, future, cancel_requested,
                   submit_raised, observer_lock, readerVars, waitVars, resultVars>>

\* ------------------------------------------------- feed(): the progress task
\* unsubscribe in the finally block of feed()
feed_unsubscribe(o) == subscribers \ {o}

\* (mutant) feed() times the observer out without taking the lock
feed_lock_ignored(o) == TRUE

\* the lock taken by feed() around time_out_observer
feed_lock_free(o) == observer_lock[o] = "free"

\* (mutant) the deadline has to be passed, not only reached
deadline_passed(run_duration, timeout) == run_duration > timeout

\* 'run_duration >= connection_observer.timeout', with the timeout read in each round
deadline_elapsed(run_duration, timeout) == run_duration >= timeout

\* first step of the task: up to 'await asyncio.sleep(0.005)' before the try block
feed_start(o) ==
    /\ loop_is_running
    /\ future[o] = "scheduled"
    /\ future' = [future EXCEPT ![o] = IF cancel_requested[o] THEN "cancelled"
                                       ELSE "sleep_first"]
    /\ cancel_requested' = [cancel_requested EXCEPT ![o] = FALSE]
    /\ UNCHANGED <<fixedVars, now, runnerVars, userLoop, subscribers, outbound, observer,
                   submit_raised, observer_lock, readerVars, waitVars, resultVars>>

\* CancelledError delivered at a sleep: the first sleep is outside try/finally,
\* the sleep of the loop is inside it
feed_cancelled(o) ==
    /\ loop_is_running
    /\ future[o] \in {"sleep_first", "sleep_loop"}
    /\ cancel_requested[o]
    /\ future' = [future EXCEPT ![o] = "cancelled"]
    /\ cancel_requested' = [cancel_requested EXCEPT ![o] = FALSE]
    /\ subscribers' = IF future[o] = "sleep_loop" THEN feed_unsubscribe(o) ELSE subscribers
    /\ UNCHANGED <<fixedVars, now, runnerVars, userLoop, outbound, observer,
                   submit_raised, observer_lock, readerVars, waitVars, resultVars>>

\* one round of 'while True' of feed(), entered when a sleep ends
feed(o) ==
    /\ loop_is_running
    /\ future[o] \in {"sleep_first", "sleep_loop"}
    /\ ~cancel_requested[o]
    /\ LET ob == observer[o]
           run_duration == now - ob.start_time
       IN IF done(ob)
          THEN /\ future' = [future EXCEPT ![o] = "finished"]
               /\ subscribers' = feed_unsubscribe(o)
               /\ UNCHANGED observer
          ELSE IF deadline_elapsed(run_duration, ob.timeout)
          THEN /\ feed_lock_free(o)
               /\ observer' = [observer EXCEPT ![o] = time_out_observer(ob)]
               /\ future' = [future EXCEPT ![o] = "finished"]
               /\ subscribers' = feed_unsubscribe(o)
          ELSE /\ observer' = [observer EXCEPT ![o] = IF in_shutdown THEN cancel(ob) ELSE ob]
               /\ future' = [future EXCEPT ![o] = "sleep_loop"]
               /\ UNCHANGED subscribers
    /\ UNCHANGED <<fixedVars, now, runnerVars, userLoop, outbound, cancel_requested,
                   submit_raised, observer_lock, readerVars, waitVars, resultVars>>

\* ------------------------------------------ connection: inbound fanout
sink_returns(t, todo) ==
    /\ dpc' = [dpc EXCEPT ![t] = IF todo = {} THEN "idle" ELSE "fanout"]
    /\ dcur' = [dcur EXCEPT ![t] = "cmd"]

\* a chunk arrives: the sinks to call are a snapshot of the subscribers
on_bytes(t) ==
    /\ dpc[t] = "idle"
    /\ deliveries < MaxDeliveries
    /\ deliveries' = deliveries + 1
    /\ dtodo' = [dtodo EXCEPT ![t] = subscribers]
    /\ dpc' = [dpc EXCEPT ![t] = IF subscribers = {} THEN "idle" ELSE "fanout"]
    /\ UNCHANGED <<fixedVars, now, runnerVars, userLoop, subscribers, outbound, observer,
                   future, cancel_requested, submit_raised, observer_lock, dcur, waitVars,
                   resultVars>>

\* secure_data_received entered: 'if connection_observer.done() or self._in_shutdown'
secure_data_received(t, o) ==
    /\ dpc[t] = "fanout"
    /\ o \in dtodo[t]
    /\ dtodo' = [dtodo EXCEPT ![t] = @ \ {o}]
    /\ IF done(observer[o]) \/ in_shutdown
       THEN sink_returns(t, dtodo[t] \ {o})
       ELSE /\ dpc' = [dpc EXCEPT ![t] = "lock"]
            /\ dcur' = [dcur EXCEPT ![t] = o]
    /\ UNCHANGED <<fixedVars, now, runnerVars, userLoop, subscribers, outbound, observer,
                   future, cancel_requested, submit_raised, observer_lock, deliveries,
                   waitVars, resultVars>>

\* (mutant) the sink calls data_received without taking the lock
sink_lock_ignored(o) == TRUE

\* the lock taken by secure_data_received around data_received
sink_lock_free(o) == observer_lock[o] = "free"

\* 'with observer_lock:' then data_received is entered
secure_data_received_lock(t) ==
    /\ dpc[t] = "lock"
    /\ sink_lock_free(dcur[t])
    /\ observer_lock' = [observer_lock EXCEPT ![dcur[t]] = t]
    /\ dpc' = [dpc EXCEPT ![t] = "data_received"]
    /\ UNCHANGED <<fixedVars, now, runnerVars, userLoop, subscribers, outbound, observer,
                   future, cancel_requested, submit_raised, dcur, dtodo, deliveries,
                   waitVars, resultVars>>

\* data_received returns or raises; the with block releases the lock
secure_data_received_unlock(t) ==
    /\ dpc[t] = "data_received"
    /\ \E outcome \in Outcomes :
        /\ observer' = [observer EXCEPT ![dcur[t]] = data_received(@, outcome)]
        /\ IF outcome = "raise"
           THEN dpc' = [dpc EXCEPT ![t] = "except"] /\ UNCHANGED dcur
           ELSE sink_returns(t, dtodo[t])
    /\ observer_lock' = [observer_lock EXCEPT ![dcur[t]] =
                            IF @ = t THEN "free" ELSE @]
    /\ UNCHANGED <<fixedVars, now, runnerVars, userLoop, subscribers, outbound,
                   future, cancel_requested, submit_raised, dtodo, deliveries,
                   waitVars, resultVars>>

\* (mutant) the except clause only logs the exception
sink_exception_dropped(ob) == ob

\* what the except clause of the sink does to the observer
sink_exception_stored(ob) == set_exception(ob, "FeedError")

\* 'except Exception as exc: with observer_lock: connection_observer.set_exception(exc)'
secure_data_received_except(t) ==
    /\ dpc[t] = "except"
    /\ sink_lock_free(dcur[t])
    /\ observer' = [observer EXCEPT ![dcur[t]] = sink_exception_stored(@)]
    /\ sink_returns(t, dtodo[t])
    /\ UNCHANGED <<fixedVars, now, runnerVars, userLoop, subscribers, outbound,
                   future, cancel_requested, submit_raised, observer_lock, dtodo,
                   deliveries, waitVars, resultVars>>

\* ------------------------------------------------------------ wait_for
\* exception_stored_if_not_main_thread: an exception leaving the block is raised
\* to the caller in MainThread and stored in the observer in any other thread
exception_stored_if_not_main_thread(ob, exc) ==
    IF callerIsMain THEN ob ELSE set_exception(ob, exc)

wait_for_outcome(exc) == IF callerIsMain THEN exc ELSE "stored"

\* the finally block of wait_for: cancel the future, forget it
wait_for_finally(o) ==
    /\ cancel_requested' = [cancel_requested EXCEPT ![o] = future_cancel(o)]
    /\ submitted_futures' = submitted_futures \ {o}

\* the wait is bounded by the caller only 'if max_timeout:'
wait_is_bounded(timeout) == timeout # NoTimeout /\ timeout # 0

\* (mutant) wait_for does not test whether the loop is running
event_loop_never_running == FALSE

\* 'if event_loop.is_running():'
event_loop_is_running == loop_is_running

\* the caller's bound, counted from the call, has elapsed with the observer not done
bound_elapsed(ob, timeout, called, t) ==
    timeout # NoTimeout /\ t >= called + timeout /\ ~done(ob)

AsyncioRunner_wait_for(o, timeout) ==
    /\ backend = "asyncio"
    /\ callerpc = "free"
    /\ future[o] \in Pending \cup {"finished", "cancelled", "impossible"}
    /\ waited' = o
    /\ wait_in_loop' = loop_is_running
    /\ LET ob == observer[o] IN
       IF done(ob)
       THEN \* already done: stop the future if it is still running
            /\ cancel_requested' = [cancel_requested EXCEPT ![o] = future_cancel(o)]
            /\ wait_result' = "done_already"
            /\ bound_hit' = FALSE
            /\ UNCHANGED <<observer, submitted_futures, callerpc, wait_until,
                           wait_timeout, wait_called>>
       ELSE IF event_loop_is_running
       THEN \* _raise_wrong_usage_of_wait_for
            /\ observer' = [observer EXCEPT ![o] =
                               exception_stored_if_not_main_thread(ob, "WrongUsage")]
            /\ wait_result' = wait_for_outcome("WrongUsage")
            /\ wait_for_finally(o)
            /\ bound_hit' = FALSE
            /\ UNCHANGED <<callerpc, wait_until, wait_timeout, wait_called>>
       ELSE IF loop = "closed"
       THEN \* _run_until_complete: event_loop._check_closed() raises RuntimeError
            /\ observer' = [observer EXCEPT ![o] =
                               exception_stored_if_not_main_thread(ob, "RuntimeError")]
            /\ wait_result' = wait_for_outcome("RuntimeError")
            /\ wait_for_finally(o)
            /\ bound_hit' = FALSE
            /\ UNCHANGED <<callerpc, wait_until, wait_timeout, wait_called>>
       ELSE \* _run_via_asyncio: the loop runs until the future is done or the timer fires
            /\ callerpc' = "inwait"
            /\ wait_timeout' = timeout
            /\ wait_called' = now
            /\ wait_until' = IF wait_is_bounded(timeout)
                             THEN now + his_remaining_time(ob, timeout)
                             ELSE NoTimeout
            /\ bound_hit' = bound_elapsed(ob, timeout, now, now)
            /\ wait_result' = "waiting"
            /\ UNCHANGED <<observer, cancel_requested, submitted_futures>>
    /\ UNCHANGED <<fixedVars, now, in_shutdown, started_ev_loops, loop, shutdown_raised,
                   userLoop, subscribers, outbound, future, submit_raised, observer_lock,
                   readerVars>>

\* wait_for returns to the caller
wait_is_over ==
    /\ callerpc' = "free"
    /\ wait_until' = NoTimeout
    /\ wait_timeout' = NoTimeout
    /\ wait_called' = 0
    /\ UNCHANGED <<waited, wait_in_loop, bound_hit>>

\* feed() returned: run_until_complete returns, then the finally block
wait_for_future_done ==
    /\ callerpc = "inwait"
    /\ future[waited] = "finished"
    /\ wait_for_finally(waited)
    /\ wait_result' = "returned"
    /\ wait_is_over
    /\ UNCHANGED <<fixedVars, now, in_shutdown, started_ev_loops, loop, shutdown_raised,
                   userLoop, subscribers, outbound, observer, future, submit_raised,
                   observer_lock, readerVars>>

\* what the except clause for CancelledError does to the observer
wait_for_cancel(ob) == cancel(ob)

\* 'except asyncio.futures.CancelledError: connection_observer.cancel()'
wait_for_cancelled ==
    /\ callerpc = "inwait"
    /\ future[waited] = "cancelled"
    /\ observer' = [observer EXCEPT ![waited] = wait_for_cancel(@)]
    /\ wait_for_finally(waited)
    /\ wait_result' = "returned"
    /\ wait_is_over
    /\ UNCHANGED <<fixedVars, now, in_shutdown, started_ev_loops, loop, shutdown_raised,
                   userLoop, subscribers, outbound, future, submit_raised,
                   observer_lock, readerVars>>

\* the timer of asyncio.wait_for fires: it cancels the future and raises TimeoutError,
\* which stops the loop and reaches the except clause of wait_for
wait_for_timer_fires ==
    /\ callerpc = "inwait"
    /\ loop = "open"
    /\ wait_until # NoTimeout
    /\ now >= wait_until
    /\ future[waited] \in Pending
    /\ cancel_requested' = [cancel_requested EXCEPT ![waited] = TRUE]
    /\ callerpc' = "timedout"
    /\ UNCHANGED <<fixedVars, now, runnerVars, userLoop, subscribers, outbound, observer,
                   future, submit_raised, observer_lock, readerVars, waited, wait_until,
                   wait_timeout, wait_called, bound_hit, resultVars>>

\* the lock taken by wait_for around time_out_observer
wait_for_lock_free(o) == observer_lock[o] = "free"

\* (mutant) the except clause for TimeoutError leaves the observer alone
wait_for_timed_out_skipped(ob) == ob

\* what the except clause for TimeoutError does to the observer
wait_for_timed_out(ob) == time_out_observer(ob)

\* 'except asyncio.futures.TimeoutError: with observer_lock: time_out_observer(...)'
wait_for_timeout ==
    /\ callerpc = "timedout"
    /\ wait_for_lock_free(waited)
    /\ observer' = [observer EXCEPT ![waited] = wait_for_timed_out(@)]
    /\ wait_for_finally(waited)
    /\ wait_result' = "timeout"
    /\ wait_is_over
    /\ UNCHANGED <<fixedVars, now, in_shutdown, started_ev_loops, loop, shutdown_raised,
                   userLoop, subscribers, outbound, future, submit_raised,
                   observer_lock, readerVars>>

\* submit() of this runner hands out a future only for an observer it has failed
\* already (the MolerTimeout branch), so wait_for ends at its first test
AsyncioInThreadRunner_wait_for(o, timeout) ==
    /\ backend = "inthread"
    /\ callerpc = "free"
    /\ future[o] = "None"
    /\ done(observer[o])
    /\ wait_result' = "done_already"
    /\ waited' = o
    /\ wait_in_loop' = loop_is_running
    /\ bound_hit' = FALSE
    /\ UNCHANGED <<fixedVars, now, runnerVars, userLoop, subscribers, outbound, observer,
                   future, cancel_requested, submit_raised, observer_lock, readerVars,
                   callerpc, wait_until, wait_timeout, wait_called>>

\* ------------------------------------------------------ the environment
\* the caller cancels the future it got from submit()
Future_cancel(o) ==
    /\ callerpc = "free"
    /\ future[o] \in Pending
    /\ ~cancel_requested[o]
    /\ cancel_requested' = [cancel_requested EXCEPT ![o] = TRUE]
    /\ UNCHANGED <<fixedVars, now, runnerVars, userLoop, subscribers, outbound, observer,
                   future, submit_raised, observer_lock, readerVars, waitVars, resultVars>>

\* the owner of a running observer changes its timeout ('connection_observer.timeout = d');
\* the runner's own timeout_change() does nothing
timeout_change(o, d) ==
    /\ observer[o].state = "running"
    /\ d # observer[o].timeout
    /\ observer' = [observer EXCEPT ![o].timeout = d]
    /\ UNCHANGED <<fixedVars, now, runnerVars, userLoop, subscribers, outbound, future,
                   cancel_requested, submit_raised, observer_lock, readerVars, waitVars,
                   resultVars>>

\* ---------------------------------------------------- wait_for_iterator
\* what the caller gets for a done observer: its result, or its stored exception raised
result_for_runners(ob) ==
    IF ob.exception # "none" THEN <<"raise", ob.exception>> ELSE <<"return", ob.result>>

\* how the iterator returned by AsyncioRunner.wait_for_iterator ends once the future
\* is done: it is the iterator of the future itself, so it ends as the future ended;
\* a future that is not an asyncio future fails the assert
AsyncioRunner_wait_for_iterator(f) ==
    CASE f = "impossible" -> <<"raise", "AssertionError">>
      [] f = "cancelled" -> <<"raise", Future_exception(f)>>
      [] OTHER -> <<"return", Future_result(f)>>

\* ways the generator of AsyncioInThreadRunner.wait_for_iterator can end once the
\* future is done: 'raise StopIteration(res)' inside a generator ends it with value
\* res on interpreters before PEP 479 took effect and is turned into RuntimeError
\* on the others
AsyncioInThreadRunner_wait_for_iterator(f, ob) ==
    IF result_for_runners(ob)[1] = "raise"
    THEN {result_for_runners(ob)}
    ELSE {result_for_runners(ob), <<"raise", "RuntimeError">>}

\* the caller's own code starts / stops running the event loop of its thread
run_forever ==
    /\ callerpc = "free"
    /\ loop = "open"
    /\ ~userLoop
    /\ userLoop' = TRUE
    /\ UNCHANGED <<fixedVars, now, runnerVars, subscribers, outbound, observer, future,
                   cancel_requested, submit_raised, observer_lock, readerVars, waitVars,
                   resultVars>>

loop_stop ==
    /\ userLoop
    /\ userLoop' = FALSE
    /\ UNCHANGED <<fixedVars, now, runnerVars, subscribers, outbound, observer, future,
                   cancel_requested, submit_raised, observer_lock, readerVars, waitVars,
                   resultVars>>

\* time passes
Tick ==
    /\ now < MaxTime
    /\ now' = now + 1
    /\ bound_hit' = (bound_hit \/ (callerpc # "free" /\
                        bound_elapsed(observer[waited], wait_timeout, wait_called, now + 1)))
    /\ UNCHANGED <<fixedVars, runnerVars, userLoop, subscribers, outbound, observer, future,
                   cancel_requested, submit_raised, observer_lock, readerVars, callerpc,
                   waited, wait_until, wait_timeout, wait_called, resultVars>>

\* ---------------------------------------------------------------- spec
LoopSteps ==
    \/ \E o \in Observers : feed_start(o)
    \/ \E o \in Observers : feed_cancelled(o)
    \/ \E o \in Observers : feed(o)
    \/ wait_for_future_done
    \/ wait_for_cancelled
    \/ wait_for_timer_fires
    \/ wait_for_timeout

ReaderSteps ==
    \/ \E t \in Threads, o \in Observers : secure_data_received(t, o)
    \/ \E t \in Threads : secure_data_received_lock(t)
    \/ \E t \in Threads : secure_data_received_unlock(t)
    \/ \E t \in Threads : secure_data_received_except(t)

CallerSteps ==
    \/ \E o \in Observers : AsyncioRunner_submit(o)
    \/ \E o \in Observers : AsyncioInThreadRunner_submit(o)
    \/ \E o \in Observers, timeout \in WaitTimeouts : AsyncioRunner_wait_for(o, timeout)
    \/ \E o \in Observers, timeout \in WaitTimeouts : AsyncioInThreadRunner_wait_for(o, timeout)
    \/ AsyncioRunner_shutdown
    \/ AsyncioInThreadRunner_shutdown
    \/ \E o \in Observers : Future_cancel(o)
    \/ run_forever
    \/ loop_stop

Next ==
    \/ CallerSteps
    \/ LoopSteps
    \/ ReaderSteps
    \/ \E t \in Threads : on_bytes(t)
    \/ \E o \in Observers, d \in Deadlines : timeout_change(o, d)
    \/ Tick

Spec == Init /\ [][Next]_vars

\* The event loop runs its ready tasks and the reader threads run on: every step of
\* the loop and of a reader thread that stays possible is eventually taken.  Nothing
\* obliges the caller to call anything, to run the loop, or data to arrive.
FairSpec == Spec /\ WF_vars(LoopSteps) /\ WF_vars(ReaderSteps) /\ WF_vars(Tick)

\* The runtime on a connection on which nothing arrives: the caller, the event loop
\* and the clock only.  The loop runs its ready tasks and time goes on.
NoDataNext ==
    \/ CallerSteps
    \/ LoopSteps
    \/ Tick

NoDataSpec == Init /\ [][NoDataNext]_vars /\ WF_vars(LoopSteps) /\ WF_vars(Tick)

\* The configuration loader on its own: one process, before any observer is started.
ConfigInit ==
    /\ Init
    /\ backend = "asyncio" /\ pool = {"cmd"} /\ callerIsMain
    /\ ~check_system_resources_limit(curr_fds_open)

ConfigNext ==
    \/ \E config \in Configs : load_config(config)
    \/ clear

ConfigSpec == ConfigInit /\ [][ConfigNext]_vars

\* get_asyncio_loop_thread() called by several threads of one process.
LoopThreadInit ==
    /\ Init
    /\ backend = "inthread" /\ pool = {"cmd"}
    /\ ~check_system_resources_limit(curr_fds_open)

LoopThreadNext ==
    \/ \E t \in Callers : get_asyncio_loop_thread_lock(t)
    \/ \E t \in Callers : get_asyncio_loop_thread_create(t)
    \/ \E t \in Callers : get_asyncio_loop_thread_start(t)
    \/ \E t \in Callers : get_asyncio_loop_thread_unlock(t)
    \/ \E t \in Callers : get_asyncio_loop_thread_return(t)

LoopThreadSpec == LoopThreadInit /\ [][LoopThreadNext]_vars

\* iterate_over_device_states run on one device.
DeviceInit ==
    /\ \E states \in DeviceStateLists : InitWithDevice(states)
    /\ backend = "asyncio" /\ pool = {"cmd"} /\ callerIsMain
    /\ ~check_system_resources_limit(curr_fds_open)

DeviceNext ==
    \/ iterate_over_device_states
    \/ iterate_goto_source
    \/ iterate_goto_target

DeviceSpec == DeviceInit /\ [][DeviceNext]_vars

\* Tests wrapped by MolerTest.wrapper run one after another in one process.
TestInit ==
    /\ Init
    /\ backend = "asyncio" /\ pool = {"cmd"} /\ callerIsMain
    /\ ~check_system_resources_limit(curr_fds_open)

TestNext ==
    \/ \E steps_end_checked \in BOOLEAN : MolerTest_wrapped(steps_end_checked)
    \/ MolerTest_steps_end
    \/ \E raise_exception \in BOOLEAN : MolerTest_log_error(raise_exception)
    \/ observer_exception_recorded
    \/ \E raised \in BOOLEAN : MolerTest_body_ends(raised)
    \/ MolerTest_final_check

TestSpec == TestInit /\ [][TestNext]_vars

\* One Iperf2 command is built and fed with the lines of its connection.
IperfInit ==
    /\ Init
    /\ backend = "asyncio" /\ pool = {"cmd"} /\ callerIsMain
    /\ ~check_system_resources_limit(curr_fds_open)

IperfNext ==
    \/ \E options \in IperfOptions : Iperf2_init(options)
    \/ \E l \in Lines, is_full_line \in BOOLEAN, first \in Ids \cup {SUM} :
           Iperf2_on_new_line(l, is_full_line, first)

IperfSpec == IperfInit /\ [][IperfNext]_vars

\* ============================================================== claims
Admitted == Pending \cup {"finished", "cancelled"}
NormalReturns == {"done_already", "returned", "stored", "timeout"}
wait_returned == callerpc = "free" /\ wait_result \in NormalReturns

\* C1: submit never raises, in either backend: a failure to admit or start the
\* observer is reported through the returned handle and the observer's exception.
C1_SubmitNeverRaises == \A o \in Observers : submit_raised[o] = "none"

\* C2: once submit has returned a handle for an admitted observer, and for as long as
\* its progress task has not ended, the sink is subscribed: every chunk the
\* connection starts to deliver is handed to that observer's sink, even before the
\* first tick of the task.
C2_NoChunkLostAfterSubmit ==
    [][\A o \in Observers :
          /\ (future'[o] \in Pending => o \in subscribers')
          /\ (deliveries' = deliveries + 1 /\ future[o] \in Pending) =>
                \E t \in Threads : dpc[t] = "idle" /\ dpc'[t] = "fanout" /\ o \in dtodo'[t]
      ]_vars

\* a chunk is inside data_received of an observer whose task has not run at all yet
C2_Witness ==
    \E o \in Observers, t \in Threads :
        future[o] = "scheduled" /\ dpc[t] = "data_received" /\ dcur[t] = o

\* C3: for an admitted command the command string is written to the connection exactly
\* once, with the sink already subscribed and before the progress task exists (so
\* before its first tick); for an observer that is not a command nothing is written.
C3_RequestLineOnceAfterSubscribe ==
    \A o \in Observers :
        LET sent == {i \in 1..Len(outbound) : outbound[i].cmd = o} IN
        /\ Cardinality(sent) <= 1
        /\ (~is_command(o)) => sent = {}
        /\ (is_command(o) /\ future[o] \in Admitted) =>
              /\ Cardinality(sent) = 1
              /\ \A i \in sent : outbound[i].subscribed /\ outbound[i].task = "none"

\* the command's task has ticked and the one line is on the connection
C3_Witness ==
    /\ future["cmd"] = "sleep_loop"
    /\ Len(outbound) = 1
    /\ "cmd" \in subscribers

\* C4: after shutdown() every observer that was submitted and is not yet terminal
\* eventually becomes terminal, in state cancelled.
C4_ShutdownCancelsObservers ==
    \A o \in Observers :
        (in_shutdown /\ future[o] \in Pending /\ observer[o].state = "running")
            ~> (observer[o].state = "cancelled")

\* C5: after shutdown() every sink the runner installed is eventually unsubscribed.
C5_ShutdownUnsubscribesSinks ==
    \A o \in Observers : (in_shutdown /\ o \in subscribers) ~> (o \notin subscribers)

\* C6: when wait(handle, timeout=T) was called on a running observer and T elapsed
\* (counted from the call) before the observer became terminal, then once wait has
\* returned the observer is failed with a Timeout and the handle is cancelled.
C6_WaitTimeoutFailsObserver ==
    (wait_returned /\ bound_hit) =>
        /\ observer[waited].state = "failed"
        /\ observer[waited].exception = "MolerTimeout"
        /\ (cancel_requested[waited] \/ future[waited] = "cancelled")

\* C7: whenever wait has returned normally (no exception thrown to the caller) the
\* observer it waited for is in a terminal state.
C7_WaitReturnsOnTerminal == wait_returned => done(observer[waited])

\* wait blocked, the observer got its result from a chunk, feed() ended, wait returned
C7_Witness ==
    /\ wait_returned
    /\ wait_result = "returned"
    /\ observer[waited].state = "succeeded"
    /\ future[waited] = "finished"

C9_FeedNeverConcurrent ==
    \A o \in Observers :
        Cardinality({t \in Threads : dpc[t] = "data_received" /\ dcur[t] = o}) <= 1

\* one thread is inside data_received while another waits for the same observer's lock
C9_Witness ==
    \E o \in Observers, t1, t2 \in Threads :
        /\ dpc[t1] = "data_received" /\ dcur[t1] = o
        /\ dpc[t2] = "lock" /\ dcur[t2] = o

\* C10: when a chunk, the deadline in the progress task and a wait timeout race on
\* one observer, a Timeout is only ever applied with the observer lock free (never
\* while a sink holds it inside data_received), the outcome that came first is kept
\* by every later step, and result and exception are never both set.
C10_FirstMutationWins ==
    [][\A o \in Observers :
          /\ (observer'[o].exception = "MolerTimeout" /\ observer[o].exception # "MolerTimeout")
                => observer_lock[o] = "free"
          /\ done(observer[o]) =>
                /\ observer'[o].state = observer[o].state
                /\ observer'[o].result = observer[o].result
                /\ observer'[o].exception = observer[o].exception
          /\ ~(observer'[o].result # "none" /\ observer'[o].exception # "none")
      ]_vars

\* the wait timeout has fired while a sink holds the lock inside data_received
C10_Witness ==
    /\ callerpc = "timedout"
    /\ observer_lock[waited] \in Threads
    /\ ~done(observer[waited])

\* C11: data_received is never entered on an observer that is already terminal:
\* whenever a reader thread enters data_received of an observer, that observer is
\* not done.
C11_NoFeedAfterTerminal ==
    [][\A t \in Threads :
          (dpc[t] # "data_received" /\ dpc'[t] = "data_received")
              => ~done(observer[dcur'[t]])
      ]_vars

\* C12: every change a runner makes to an observer's state is made holding the
\* observer's lock: no step changes the state, result or exception of an observer
\* while its lock is held by a thread other than the one making the step.
C12_MutationsUnderLock ==
    [][\A o \in Observers :
          (/\ <<observer'[o].state, observer'[o].result, observer'[o].exception>>
                 # <<observer[o].state, observer[o].result, observer[o].exception>>
           /\ observer_lock[o] # "free")
              => \E t \in Threads :
                    /\ observer_lock[o] = t
                    /\ dpc[t] = "data_received" /\ dpc'[t] # "data_received"
      ]_vars

C14_UnsubscribeOnEveryExit ==
    [][\A o \in Observers :
          (future[o] \in Pending /\ future'[o] \in {"finished", "cancelled"})
              => o \notin subscribers'
      ]_vars

\* the resource probe of AsyncioRunner.submit refused observer o
refused(o) ==
    /\ backend = "asyncio"
    /\ observer[o].state # "unstarted"
    /\ check_system_resources_limit(curr_fds_open)

\* C15: when the resource probe refuses admission, the observer ends failed with the
\* exception that explains the refusal, no sink is subscribed, no request line is
\* sent and no progress task is scheduled.
C15_RefusalLeavesNoTrace ==
    \A o \in Observers :
        refused(o) =>
            /\ observer[o].state = "failed"
            /\ observer[o].exception = "MolerException"
            /\ o \notin subscribers
            /\ \A i \in 1..Len(outbound) : outbound[i].cmd # o
            /\ future[o] \notin Pending
            /\ o \notin submitted_futures
            /\ started_ev_loops = {}

\* a command was refused
C15_Witness == refused("cmd") /\ observer["cmd"].state = "failed"

C17_RefusesWithinTenOfLimit ==
    \A o \in Observers :
        (observer[o].state # "unstarted") =>
            ((max_open_files_limit_soft - curr_fds_open <= FdMargin)
                <=> future[o] = impossible_future)

\* C18: an observer whose deadline is exactly zero is failed with Timeout at the
\* first tick of its progress task, and data_received is never entered for it,
\* whatever chunks the connection delivers.
C18_ZeroDeadlineTimesOutUnfed ==
    [][\A o \in Observers :
          (observer[o].timeout = 0 /\ observer[o].state # "unstarted") =>
              /\ \A t \in Threads :
                    ~(dpc[t] # "data_received" /\ dpc'[t] = "data_received" /\ dcur'[t] = o)
              /\ (future[o] = "sleep_first" /\ future'[o] \in {"sleep_loop", "finished"}) =>
                    /\ observer'[o].state = "failed"
                    /\ observer'[o].exception = "MolerTimeout"
      ]_vars

\* C19: the deadline is also checked when data_received returns inside the sink: a
\* chunk processed once the deadline has elapsed leaves the observer terminal when
\* the sink returns, without waiting for the next tick of the progress task.
C19_DeadlineCheckedAtFeedReturn ==
    [][\A t \in Threads :
          (/\ dpc[t] = "data_received"
           /\ dpc'[t] \in {"idle", "fanout"}
           /\ now - observer[dcur[t]].start_time >= observer[dcur[t]].timeout)
              => done(observer'[dcur[t]])
      ]_vars

\* C20: the progress task compares the time elapsed since start_time with the
\* deadline the observer has at that tick: it times a running observer out only at
\* a tick where the elapsed time is >= the current deadline, and it goes on to its
\* next sleep only from a tick where the elapsed time is below the current deadline.
C20_DeadlineReadEachTick ==
    [][\A o \in Observers :
          LET elapsed == now - observer[o].start_time IN
          /\ (future[o] \in {"sleep_first", "sleep_loop"} /\ future'[o] = "finished"
                /\ ~done(observer[o])) =>
                /\ elapsed >= observer[o].timeout
                /\ observer'[o].exception = "MolerTimeout"
          /\ (future[o] = "sleep_first" /\ future'[o] = "sleep_loop") =>
                elapsed < observer[o].timeout \/ done(observer[o])
      ]_vars

\* the task ticked under a deadline not yet reached, then the deadline of the still
\* running observer was changed to zero (a task never gets past its first tick with
\* a deadline of zero)
C20_Witness ==
    \E o \in Observers :
        /\ future[o] = "sleep_loop"
        /\ observer[o].state = "running"
        /\ observer[o].timeout = 0

\* C22: wait(handle, timeout=T) bounds the caller's wait by T counted from the
\* moment wait is called, however long ago the observer was started: while the
\* caller is blocked in a wait with timeout T, the timer of that wait is set to the
\* moment of the call plus T.
C22_WaitBoundCountedFromCall ==
    (callerpc = "inwait" /\ wait_timeout # NoTimeout)
        => wait_until = wait_called + wait_timeout

\* C24: in the dedicated-loop-thread backend submit never raises and hands out a
\* handle only with the feed task running and its sink subscribed, or else a handle
\* resolved as failed.
C24_InThreadSubmitWaitsForFeed ==
    \A o \in Observers :
        (backend = "inthread" /\ observer[o].state # "unstarted") =>
            /\ submit_raised[o] = "none"
            /\ \/ future[o] \in Pending /\ o \in subscribers
               \/ Future_done(future[o]) /\ observer[o].state = "failed"

\* C28: whenever the progress task of an observer has ended, by returning or by
\* being cancelled, and no wait on that observer is still on its way out, the
\* observer is in a terminal state.
C28_EndedTaskMeansTerminal ==
    \A o \in Observers :
        (future[o] \in {"finished", "cancelled"} /\ ~(callerpc # "free" /\ waited = o))
            => done(observer[o])

\* C29: a handle is in the runner's set of submitted futures from submit on and is
\* no longer in it once wait has returned for it, on every return path of wait, or
\* once shutdown has returned.
C29_LiveHandlesReaped ==
    /\ (callerpc = "free" /\ wait_result \notin {"none", "waiting"})
          => waited \notin submitted_futures
    /\ \A o \in submitted_futures : future[o] \in Admitted

\* C30: wait treats every timeout that is not None, 0 included, as a bound on the
\* caller's wait: a wait blocked with timeout 0 has its timer set.
C30_ZeroTimeoutIsABound ==
    (callerpc = "inwait" /\ wait_timeout # NoTimeout) => wait_until # NoTimeout

\* C25: shutdown() is idempotent and latching: in_shutdown, once true, stays true,
\* and a shutdown() leaves the runner in a state in which a further shutdown()
\* raises nothing and leaves the loop, the owned loops and the submitted futures
\* as they are.
C25_ShutdownIdempotentAndLatching ==
    [][/\ in_shutdown => in_shutdown'
       /\ (AsyncioRunner_shutdown \/ AsyncioInThreadRunner_shutdown) =>
             /\ ~owned_loop_close_raises'
             /\ shutdown_loop' = loop'
             /\ shutdown_started_ev_loops' = started_ev_loops'
             /\ shutdown_submitted_futures' = submitted_futures'
      ]_vars

\* C23: once the handle is done, the iterator of wait_for_iterator ends by returning
\* the observer's result, or by raising the observer's stored exception, in both
\* backends.
C23_WaitIterReturnsObserverResult ==
    \A o \in Observers :
        (Future_done(future[o]) /\ done(observer[o])) =>
            IF backend = "asyncio"
            THEN AsyncioRunner_wait_for_iterator(future[o]) = result_for_runners(observer[o])
            ELSE AsyncioInThreadRunner_wait_for_iterator(future[o], observer[o])
                     = {result_for_runners(observer[o])}

\* C21: a command on which no data arrives, waited for with wait_for(timeout=None)
\* while its task is alive and not cancelled by its owner, ends failed with a timeout
\* and the wait returns, once the command's own deadline has elapsed.
C21_UnfedCommandTimesOut ==
    \A o \in Observers :
        (/\ is_command(o) /\ callerpc = "inwait" /\ waited = o
         /\ wait_timeout = NoTimeout
         /\ future[o] \in Pending /\ ~cancel_requested[o]
         /\ observer[o].state = "running"
         /\ now - observer[o].start_time >= observer[o].timeout)
        ~> (/\ callerpc = "free" /\ waited = o
            /\ observer[o].state = "failed"
            /\ observer[o].exception = "MolerTimeout")

C21_Witness ==
    /\ callerpc = "free" /\ waited = "cmd" /\ wait_timeout = NoTimeout
    /\ wait_result \in {"returned", "stored"}
    /\ deliveries = 0
    /\ observer["cmd"].state = "failed"
    /\ observer["cmd"].exception = "MolerTimeout"

\* C26: load_config called again with a config equal to one it was called with
\* before (the same file name, or a dict with the same content) changes no logger,
\* connection or device definition and raises nothing.
C26_ReloadSameIsNoOp ==
    [][\A config \in Configs :
          (load_config(config) /\ config \in passed_configs) =>
              (UNCHANGED definitionVars /\ load_raised' = "none")
      ]_vars

\* C27: load_config called, after some config was loaded, with a config it was never
\* called with leaves the logger settings, the named connections, the default
\* variant and the default connection as they are and only adds devices.
C27_ReloadDifferentAddsDevicesOnly ==
    [][\A config \in Configs :
          (/\ load_config(config)
           /\ loaded_config # <<NOT_LOADED_YET>>
           /\ config \notin passed_configs) =>
              /\ UNCHANGED <<logger, named_connections, default_variant, default_connection>>
              /\ named_devices \subseteq named_devices'
      ]_vars

C27_Witness ==
    /\ Len(loaded_config) = 2 /\ load_raised = "none"
    /\ named_devices = DeviceNames
    /\ loaded_config[2].config_type = "dict"
    /\ loaded_config[2].dict.LOGGER # logger
    /\ loaded_config[2].dict.default_variant # default_variant
    /\ loaded_config[2].dict.io_type = "tcp"
    /\ named_connections["C1"] = "undefined"

\* C31: the runner owns exactly the loops its submit calls created: a loop created by
\* submit is in the owned list for as long as it is open, and shutdown() closes the
\* owned loop, leaves a loop the runner did not create as it is and leaves the owned
\* list empty.
C31_OwnsExactlyCreatedLoops ==
    [][/\ started_ev_loops' = IF ~callerIsMain' /\ loop' = "open" THEN {"loop"} ELSE {}
       /\ AsyncioRunner_shutdown =>
             /\ started_ev_loops' = {}
             /\ loop' = IF started_ev_loops # {} THEN "closed" ELSE loop
      ]_vars

\* C32: however the calls of get_asyncio_loop_thread interleave, at most one
\* AsyncioLoopThread is ever started with success, it is the one registered and the
\* one every returning call hands out, and an instance whose start failed is never
\* registered, so that a later call creates another.
C32_OneLoopThread ==
    /\ Cardinality(loop_threads_started) <= 1
    /\ asyncio_loop_thread # 0 => asyncio_loop_thread \in loop_threads_started
    /\ \A t \in Callers :
          /\ got[t].returned # 0 => got[t].returned \in loop_threads_started
          /\ (gpc[t] = "idle" /\ got[t] # NothingGot /\ got[t].raised = "none")
                => got[t].returned # 0

C32_Witness ==
    /\ got["c1"].raised = "MolerException"
    /\ got["c2"].returned = 2 /\ got["c3"].returned = 2
    /\ loop_threads_started = {2}

\* C33: a load_config that ends with an exception leaves the record of loaded
\* configurations as it was.
C33_FailedLoadNotRecorded ==
    [][\A config \in Configs :
          (load_config(config) /\ load_raised' # "none") => loaded_config' = loaded_config
      ]_vars

\* C34: after clear() a load_config is a first load: given a config that was loaded
\* with success before the clear(), it is not skipped, it is not taken as 'add
\* devices only' and it ends without an exception.
C34_ClearThenLoadIsFirstLoad ==
    [][clear =>
          \A config \in {loaded_config[i] : i \in 1..Len(loaded_config)} :
              (Len(loaded_config) = 1 /\ named_devices # {}) =>
                  /\ loaded_config' = <<NOT_LOADED_YET>>
                  /\ ~add_devices_only(config)'
                  /\ load_outcome(config)' = "none"
      ]_vars

\* C35: when iterate_over_device_states is through, every ordered pair of the
\* device's states other than NOT_CONNECTED was requested as a change to the second
\* with the device in the first; and the MolerException it raises for a change that
\* failed names the state the device was in and the state requested.
C35_EveryPairFromItsSource ==
    /\ sm_pc = "done" =>
          \A i, j \in 1..Len(device_states) :
              <<device_states[i], device_states[j]>> \in sm_requested
    /\ sm_raised.exception = "MolerException" => sm_raised.source = sm_raised.was_in

\* C36: the wrapper raises MolerStatusException exactly when the body raised, or
\* log_error was called during the body, or an unhandled observer exception was
\* recorded since the last check, or steps_end() is checked and was not called;
\* otherwise it returns the body's result.
C36_VerdictOfWrappedTest ==
    [][MolerTest_final_check =>
          (verdict' = "MolerStatusException"
              <=> \/ caught_exception
                  \/ logged_in_body
                  \/ active_exceptions
                  \/ check_steps_end /\ ~was_steps_end)
      ]_vars

\* C37: whether a wrapped test raises MolerStatusException is settled by what
\* happened since the check of the test before it: the exception of its body, the
\* errors logged and the observer exceptions recorded since that check, and the
\* steps_end() calls made since its body began.
C37_VerdictIndependentOfEarlierTests ==
    [][/\ MolerTest_final_check =>
             (verdict' = "MolerStatusException"
                 <=> \/ caught_exception
                     \/ logged_in_body \/ logged_before
                     \/ active_exceptions
                     \/ check_steps_end /\ ~was_steps_end)
       /\ (\E c \in BOOLEAN : MolerTest_wrapped(c)) => ~was_steps_end'
      ]_vars

\* a test that follows a test that raised is about to return its body's result
C37_Witness ==
    /\ verdict = "MolerStatusException"
    /\ test_pc = "check" /\ check_steps_end /\ was_steps_end
    /\ ~caught_exception /\ ~logged_in_body /\ ~logged_before /\ ~active_exceptions

\* C38: a full line is taken by the first parser, in the order failure, connection
\* name, headers, record, info, whose pattern finds a match in it, and by no other
\* parser; a line that is not full is taken by none and changes nothing.
C38_AtMostOneParserPerLine ==
    [][iperf2.constructed =>
          /\ Cardinality(iperf2'.applied) <= 1
          /\ \A i \in iperf2'.applied :
                 i \in iperf2'.matched /\ \A j \in iperf2'.matched : i <= j
          /\ (iperf2'.is_full_line /\ iperf2'.matched # {} /\ iperf2'.raised = "none")
                 => iperf2'.applied # {}
          /\ ~iperf2'.is_full_line =>
                 /\ iperf2'.applied = {}
                 /\ iperf2'.exception = iperf2.exception
                 /\ iperf2'.connection_dict = iperf2.connection_dict
                 /\ iperf2'.CONNECTIONS = iperf2.CONNECTIONS
                 /\ iperf2'.reports = iperf2.reports
                 /\ iperf2'.INFO = iperf2.INFO
      ]_vars

\* a full line in which the patterns of several parsers find a match
C38_Witness ==
    /\ iperf2.is_full_line
    /\ Cardinality(iperf2.matched) >= 3
    /\ iperf2.applied = {2}

\* C39: the report stored for (client host, server host:port) is the record parsed
\* last among the records of that connection whose interval starts at 0.0, and
\* no report is stored for a connection without such a record.
C39_ReportIsFinalRecord ==
    \A k \in DOMAIN iperf2.reports
              \cup {result_connection(iperf2.parsed[i][1]) : i \in 1..Len(iperf2.parsed)} :
        LET finals == {i \in 1..Len(iperf2.parsed) :
                          /\ result_connection(iperf2.parsed[i][1]) = k
                          /\ iperf2.parsed[i][2].Interval[1] = 0}
            last == CHOOSE i \in finals : \A j \in finals : j <= i
        IN IF finals = {} THEN k \notin DOMAIN iperf2.reports
           ELSE k \in DOMAIN iperf2.reports /\ iperf2.reports[k] = iperf2.parsed[last][2]

\* a connection with two records that start at 0.0, the second one reported
C39_Witness ==
    /\ Len(iperf2.parsed) = 2
    /\ iperf2.parsed[1][2].Interval = <<0, 1>>
    /\ iperf2.parsed[2][2].Interval = <<0, 2>>
    /\ iperf2.parsed[1][1] = iperf2.parsed[2][1]
    /\ iperf2.reports[result_connection(iperf2.parsed[2][1])].Interval = <<0, 2>>
====
